---- MODULE Spec2Model ----
(***************************************************************************)
(* librgb: the C-facing operations of the RGB node integration             *)
(* (src/librgb/src/internal.rs, external.rs, error.rs).                    *)
(*                                                                         *)
(* Every operation is a synchronous single-shot call.  A call is one       *)
(* action: it reads its arguments in the order the code reads them,        *)
(* returns at the first failing `?`, and otherwise hands the parsed        *)
(* values to the runtime delegate.  `last` holds the reply the caller is   *)
(* looking at; Return is the caller dropping it before the next call.      *)
(***************************************************************************)
EXTENDS Integers, Sequences, FiniteSets, TLC

VARIABLES
    assets,       \* the runtime's asset allocation ledger
    stash,        \* the consignments the runtime has accepted
    disk,         \* the consignment stored in the consignment file
    revalidates,  \* whether this runtime's accept re-validates the consignment
    last,         \* the reply of the call that has just returned
    target,       \* the target_os the library was built for
    logger,       \* the process-wide logger: installed or not, level, RUST_LOG
    crashed,      \* whether the process has aborted
    boot          \* the reply of the rgb_node_connect / rgb_node_run call

vars == <<assets, stash, disk, revalidates, last, target, logger, crashed, boot>>

runtimeState == <<assets, stash, disk, revalidates>>

processState == <<target, logger, crashed, boot>>

----------------------------------------------------------------------------
(* Bounds of the model *)

\* longest payment / change list handed to one transfer call
MaxLen == 2
\* number of distinct blinding factors the random source can draw
NumBlind == 2
\* longest reveal list handed to one accept call
MaxReveals == 1
\* largest verbosity handed to rgb_node_connect / rgb_node_run
MaxVerbosity == 2

----------------------------------------------------------------------------
(* Generic helpers *)

SeqsUpTo(S, n) == UNION {[1..k -> S] : k \in 0..n}

Range(s) == {s[i] : i \in DOMAIN s}

\* BTreeMap::insert on a map held as a set of entries with unique keys: an
\* existing entry under the same key is replaced
BTreeMapInsert(m, k, v) == {e \in m : e.key # k} \cup {[key |-> k, val |-> v]}

----------------------------------------------------------------------------
(* Argument texts and their parsers *)

CidStrings == {"rgb1c1", "not-a-contract-id"}

\* mutation: the text is read with from_bech32_str, which takes another form
ContractId_from_bech32_str(s) ==
    IF s = "rgb:id1c1" THEN [ok |-> TRUE, id |-> "c1"] ELSE [ok |-> FALSE, id |-> ""]

\* ContractId::from_str
ContractId_from_str(s) ==
    IF s = "rgb1c1" THEN [ok |-> TRUE, id |-> "c1"] ELSE [ok |-> FALSE, id |-> ""]

OutpointStrings == {"o1", "o2", "no-colon"}

Outpoints == {"o1", "o2"}

\* OutPoint::from_str
OutPoint_from_str(s) ==
    IF s \in {"o1", "o2"} THEN [ok |-> TRUE, outpoint |-> s]
    ELSE [ok |-> FALSE, outpoint |-> ""]

\* the `inputs` argument: JSON text of a Vec<OutPoint>
InputsJsons == {"[]", "[o1]", "[o1,o1]", "{"}

\* serde_json::from_str::<Vec<OutPoint>> followed by BTreeSet::from_iter
ParseInputs(s) ==
    CASE s = "[]"      -> [ok |-> TRUE,  set |-> {}]
      [] s = "[o1]"    -> [ok |-> TRUE,  set |-> {"o1"}]
      [] s = "[o1,o1]" -> [ok |-> TRUE,  set |-> {"o1"}]
      [] OTHER         -> [ok |-> FALSE, set |-> {}]

(* A payment item is a text, written as the sequence of its lexemes: "@",   *)
(* a decimal digit, or the 64-hex-digit text of an outpoint hash ("h1").    *)
HashLexemes == {"h1", "h2"}

DigitLexemes == {"1", "2"}

At == "@"

PaymentTexts ==
    { <<"h1", At, "1">>,            \* h1@1
      <<"h1", At, "2">>,            \* h1@2
      <<"h2", At, "1">>,            \* h2@1
      <<"1", At, "h1">>,            \* 1@h1
      <<"h1">>,                     \* no '@'
      <<"h1", At, "1", At, "2">>,   \* two '@'
      <<"h1", At>>,                 \* empty second half
      <<At, "1">> }                 \* empty first half

\* str::split('@').collect(): the pieces between the separators, empty ones kept
RECURSIVE SplitAt(_, _, _)
SplitAt(text, cur, acc) ==
    IF text = <<>> THEN Append(acc, cur)
    ELSE IF Head(text) = At THEN SplitAt(Tail(text), <<>>, Append(acc, cur))
    ELSE SplitAt(Tail(text), Append(cur, Head(text)), acc)

Split(text) == SplitAt(text, <<>>, <<>>)

\* OutpointHash::from_str: exactly one hash text
OutpointHash_from_str(part) ==
    IF Len(part) = 1 /\ part[1] \in HashLexemes
    THEN [ok |-> TRUE, hash |-> part[1]]
    ELSE [ok |-> FALSE, hash |-> ""]

DigitValue(d) == IF d = "1" THEN 1 ELSE 2

RECURSIVE DecimalValue(_, _)
DecimalValue(part, acc) ==
    IF part = <<>> THEN acc
    ELSE DecimalValue(Tail(part), 10 * acc + DigitValue(Head(part)))

\* str::parse::<AtomicValue>: a non-empty run of decimal digits
AtomicValue_parse(part) ==
    IF part # <<>> /\ \A i \in DOMAIN part : part[i] \in DigitLexemes
    THEN [ok |-> TRUE, value |-> DecimalValue(part, 0)]
    ELSE [ok |-> FALSE, value |-> 0]

\* mutation: `parts.len() >= 2` in place of `parts.len() == 2`
ParsePaymentItem_AtLeastTwoParts(text) ==
    LET parts == Split(text) IN
    IF Len(parts) >= 2
    THEN LET hash == OutpointHash_from_str(parts[1])
             value == AtomicValue_parse(parts[2]) IN
         IF ~hash.ok THEN [ok |-> FALSE, err |-> "Hex", key |-> "", val |-> 0]
         ELSE IF ~value.ok THEN [ok |-> FALSE, err |-> "ParseInt", key |-> "", val |-> 0]
         ELSE [ok |-> TRUE, err |-> "", key |-> hash.hash, val |-> value.value]
    ELSE [ok |-> FALSE, err |-> "Input", key |-> "", val |-> 0]

\* one turn of the payment loop: the first piece is read as the outpoint
\* hash, the second as the amount
ParsePaymentItem(text) ==
    LET parts == Split(text) IN
    IF Len(parts) = 2
    THEN LET hash == OutpointHash_from_str(parts[1])
             value == AtomicValue_parse(parts[2]) IN
         IF ~hash.ok THEN [ok |-> FALSE, err |-> "Hex", key |-> "", val |-> 0]
         ELSE IF ~value.ok THEN [ok |-> FALSE, err |-> "ParseInt", key |-> "", val |-> 0]
         ELSE [ok |-> TRUE, err |-> "", key |-> hash.hash, val |-> value.value]
    ELSE [ok |-> FALSE, err |-> "Input", key |-> "", val |-> 0]

\* the payment loop: stops at the first item that fails, inserts the others
RECURSIVE ParsePayments(_, _)
ParsePayments(items, acc) ==
    IF items = <<>> THEN [ok |-> TRUE, err |-> "", map |-> acc]
    ELSE LET p == ParsePaymentItem(Head(items)) IN
         IF ~p.ok THEN [ok |-> FALSE, err |-> p.err, map |-> {}]
         ELSE ParsePayments(Tail(items), BTreeMapInsert(acc, p.key, p.val))

ChangeTexts == {"1@s1", "2@s1", "1@s2", "not-seal-coins"}

\* SealCoins::from_str, then seal_definition() and coins
SealCoins_from_str(s) ==
    CASE s = "1@s1" -> [ok |-> TRUE, seal |-> "s1", coins |-> 1]
      [] s = "2@s1" -> [ok |-> TRUE, seal |-> "s1", coins |-> 2]
      [] s = "1@s2" -> [ok |-> TRUE, seal |-> "s2", coins |-> 1]
      [] OTHER      -> [ok |-> FALSE, seal |-> "", coins |-> 0]

\* the change loop
RECURSIVE ParseChanges(_, _)
ParseChanges(items, acc) ==
    IF items = <<>> THEN [ok |-> TRUE, err |-> "", map |-> acc]
    ELSE LET sc == SealCoins_from_str(Head(items)) IN
         IF ~sc.ok THEN [ok |-> FALSE, err |-> "Outpoint", map |-> {}]
         ELSE ParseChanges(Tail(items), BTreeMapInsert(acc, sc.seal, sc.coins))

\* a JSON array of strings, or a text that is no such array
BadJson == [json |-> FALSE, items |-> <<>>]

JsonLists(Texts, n) ==
    {BadJson} \cup {[json |-> TRUE, items |-> s] : s \in SeqsUpTo(Texts, n)}

WitnessTexts == {"psbt", "truncated"}

\* PartiallySignedTransaction::consensus_decode
ConsensusDecode(w) ==
    IF w = "psbt" THEN [ok |-> TRUE, psbt |-> "tx"] ELSE [ok |-> FALSE, psbt |-> ""]

----------------------------------------------------------------------------
(* The reply of the transfer delegate and its re-encoding *)

\* consensus encodings the finalized witness can have, as byte strings
WitnessEncodings ==
    { <<65>>,                          \* one ASCII byte
      <<195, 169>>,                    \* a two-byte UTF-8 character
      <<195>>,                         \* a lead byte with nothing after it
      <<112, 115, 98, 116, 255>> }     \* "psbt" and the 0xff separator

DelegateErrors == {"conservation-mismatch", "unknown-contract", "input-not-owned"}

\* what Runtime::transfer can answer
TransferOutcomes(Encodings) ==
    {[ok |-> FALSE, err |-> e, consignment |-> "", witness |-> <<>>] :
        e \in DelegateErrors}
    \cup {[ok |-> TRUE, err |-> "", consignment |-> "consignment", witness |-> w] :
        w \in Encodings}

\* String::from_utf8: accepts exactly the well-formed UTF-8 byte strings
RECURSIVE Utf8Valid(_)
Utf8Valid(bs) ==
    IF bs = <<>> THEN TRUE
    ELSE LET b == bs[1]
             n == Len(bs)
             Cont(i) == i <= n /\ bs[i] >= 128 /\ bs[i] <= 191
         IN  IF b < 128 THEN Utf8Valid(Tail(bs))
             ELSE IF b >= 194 /\ b <= 223
                  THEN Cont(2) /\ Utf8Valid(SubSeq(bs, 3, n))
             ELSE IF b >= 224 /\ b <= 239
                  THEN /\ Cont(2) /\ Cont(3)
                       /\ (b = 224 => bs[2] >= 160)
                       /\ (b = 237 => bs[2] <= 159)
                       /\ Utf8Valid(SubSeq(bs, 4, n))
             ELSE IF b >= 240 /\ b <= 244
                  THEN /\ Cont(2) /\ Cont(3) /\ Cont(4)
                       /\ (b = 240 => bs[2] >= 144)
                       /\ (b = 244 => bs[2] <= 143)
                       /\ Utf8Valid(SubSeq(bs, 5, n))
             ELSE FALSE

\* Consignment::to_bech32_string
ToBech32String(c) == <<"bech32", c>>

NoPackage == [consignment |-> <<>>, witness |-> <<>>]

\* mutation: a delegate failure is logged and an empty package returned
TransferReply_Swallow(d) ==
    IF ~d.ok
    THEN [status |-> "ok", err |-> "", calls |-> 1, hasOut |-> TRUE, out |-> NoPackage]
    ELSE IF ~Utf8Valid(d.witness)
    THEN [status |-> "Utf8", err |-> "", calls |-> 1, hasOut |-> FALSE, out |-> NoPackage]
    ELSE [status |-> "ok", err |-> "", calls |-> 1, hasOut |-> TRUE,
          out |-> [consignment |-> ToBech32String(d.consignment), witness |-> d.witness]]

\* the one call of runtime.transfer and what follows it
TransferReply(d) ==
    IF ~d.ok
    THEN [status |-> "Integration", err |-> d.err, calls |-> 1,
          hasOut |-> FALSE, out |-> NoPackage]
    ELSE IF ~Utf8Valid(d.witness)
    THEN [status |-> "Utf8", err |-> "", calls |-> 1, hasOut |-> FALSE, out |-> NoPackage]
    ELSE [status |-> "ok", err |-> "", calls |-> 1, hasOut |-> TRUE,
          out |-> [consignment |-> ToBech32String(d.consignment), witness |-> d.witness]]

----------------------------------------------------------------------------
(* Replies *)

NoArgs == [contract_id |-> "", inputs |-> {}, payment |-> {}, change |-> {},
           witness |-> ""]

NoOutcome == [ok |-> FALSE, err |-> "", consignment |-> "", witness |-> <<>>]

NoInvoice == <<>>

Blank ==
    [op |-> "none", status |-> "", err |-> "", read |-> {}, calls |-> 0,
     \* transfer
     contract_id |-> "", inputs |-> "", payment |-> BadJson, change |-> BadJson,
     witness |-> "", dargs |-> NoArgs, dout |-> NoOutcome,
     hasOut |-> FALSE, out |-> NoPackage,
     \* validate, accept
     file |-> "", reveals |-> BadJson,
     \* invoice
     asset_id |-> "", outpoint |-> "", amount |-> 0, invoice |-> NoInvoice,
     secret |-> 0]

Failed(r, e) == [r EXCEPT !.status = e]

----------------------------------------------------------------------------
(* _transfer *)

_transfer(PaymentJsons, ChangeJsons, Outcomes) ==
    /\ last.op = "none"
    /\ UNCHANGED runtimeState
    /\ \E rt \in BOOLEAN :
        LET r1 == [Blank EXCEPT !.op = "transfer", !.read = {"runtime"}] IN
        IF ~rt THEN last' = Failed(r1, "Runtime")
        ELSE \E cid \in CidStrings :
        LET r2 == [r1 EXCEPT !.contract_id = cid, !.read = @ \cup {"contract_id"}]
            contract_id == ContractId_from_str(cid) IN
        IF ~contract_id.ok THEN last' = Failed(r2, "Bech32")
        ELSE \E inp \in InputsJsons :
        LET r3 == [r2 EXCEPT !.inputs = inp, !.read = @ \cup {"inputs"}]
            inputs == ParseInputs(inp) IN
        IF ~inputs.ok THEN last' = Failed(r3, "Json")
        ELSE \E pay \in PaymentJsons :
        LET r4 == [r3 EXCEPT !.payment = pay, !.read = @ \cup {"payment"}]
            payment == ParsePayments(pay.items, {}) IN
        IF ~pay.json THEN last' = Failed(r4, "Json")
        ELSE IF ~payment.ok THEN last' = Failed(r4, payment.err)
        ELSE \E chg \in ChangeJsons :
        LET r5 == [r4 EXCEPT !.change = chg, !.read = @ \cup {"change"}]
            change == ParseChanges(chg.items, {}) IN
        IF ~chg.json THEN last' = Failed(r5, "Json")
        ELSE IF ~change.ok THEN last' = Failed(r5, change.err)
        ELSE \E wit \in WitnessTexts :
        LET r6 == [r5 EXCEPT !.witness = wit, !.read = @ \cup {"witness"}]
            witness == ConsensusDecode(wit) IN
        IF ~witness.ok THEN last' = Failed(r6, "ConsensusEncode")
        ELSE \E d \in Outcomes :
        LET reply == TransferReply(d) IN
        last' = [r6 EXCEPT
                    !.dargs = [contract_id |-> contract_id.id,
                               inputs |-> inputs.set,
                               payment |-> payment.map,
                               change |-> change.map,
                               witness |-> witness.psbt],
                    !.dout = d,
                    !.calls = reply.calls,
                    !.status = reply.status,
                    !.err = reply.err,
                    !.hasOut = reply.hasOut,
                    !.out = reply.out]

----------------------------------------------------------------------------
(* Seals, blinding and consignments *)

Blindings == 1..NumBlind

OutIndex(o) == IF o = "o1" THEN 1 ELSE 2

\* OutpointReveal::from(outpoint): the outpoint with a freshly drawn blinding
OutpointReveal_from(o, b) == [outpoint |-> o, blinding |-> b]

\* CommitConceal::commit_conceal: the outpoint hash of (outpoint, blinding),
\* a different hash for every different pair
commit_conceal(reveal) == OutIndex(reveal.outpoint) * NumBlind + reveal.blinding

OutpointHashes ==
    {commit_conceal(OutpointReveal_from(o, b)) : o \in Outpoints, b \in Blindings}

\* how an allocation's seal is held in the ledger
Revealed(o) == [kind |-> "revealed", outpoint |-> o, hash |-> 0]

Blinded(h) == [kind |-> "blinded", outpoint |-> "", hash |-> h]

\* most allocations one consignment carries
MaxSeals == 2

\* a consignment: whether it passes validation, and the allocations it
\* assigns, each to a blinded seal
Consignments ==
    {[valid |-> v, allocs |-> {[hash |-> h, amount |-> 1] : h \in hs}] :
        v \in BOOLEAN,
        hs \in {x \in SUBSET OutpointHashes : Cardinality(x) \in 1..MaxSeals}}

Filenames == {"consignment.rgb", "missing.rgb"}

\* Consignment::read_file
Consignment_read_file(filename) ==
    IF filename = "consignment.rgb" THEN [ok |-> TRUE, consignment |-> disk]
    ELSE [ok |-> FALSE, consignment |-> disk]

\* the `reveal_outpoints` argument: JSON text of a Vec<OutpointReveal>
RevealJsons ==
    JsonLists({OutpointReveal_from(o, b) : o \in Outpoints, b \in Blindings},
              MaxReveals)

----------------------------------------------------------------------------
(* The runtime delegates of validate, accept and issue *)

\* Runtime::validate: reads the consignment, changes nothing
runtime_validate(consignment, fault) ==
    IF fault THEN [ok |-> FALSE, err |-> "transport"]
    ELSE IF ~consignment.valid THEN [ok |-> FALSE, err |-> "invalid-consignment"]
    ELSE [ok |-> TRUE, err |-> ""]

\* the allocations of a consignment as the ledger holds them once the
\* given seals are revealed
AcceptedAllocations(consignment, reveals) ==
    {[contract |-> "c1",
      seal |-> IF \E r \in reveals : commit_conceal(r) = a.hash
               THEN Revealed((CHOOSE r \in reveals : commit_conceal(r) = a.hash).outpoint)
               ELSE Blinded(a.hash),
      amount |-> a.amount] : a \in consignment.allocs}

\* Runtime::accept: all of the consignment's allocations enter the ledger,
\* or the call fails and nothing does
runtime_accept(consignment, reveals, fault) ==
    LET noChange(e) == [ok |-> FALSE, err |-> e, assets |-> assets, stash |-> stash] IN
    IF fault THEN noChange("transport")
    ELSE IF revalidates /\ ~consignment.valid THEN noChange("invalid-consignment")
    ELSE IF \E r \in reveals :
                commit_conceal(r) \notin {a.hash : a \in consignment.allocs}
    THEN noChange("unmatched-reveal")
    ELSE [ok |-> TRUE, err |-> "",
          assets |-> assets \cup AcceptedAllocations(consignment, reveals),
          stash |-> stash \cup {consignment}]

\* Runtime::issue: the genesis allocations enter the ledger
runtime_issue(allocations, fault) ==
    IF fault THEN [ok |-> FALSE, err |-> "transport", assets |-> assets]
    ELSE [ok |-> TRUE, err |-> "",
          assets |-> assets \cup
              {[contract |-> "c1", seal |-> Revealed(a.outpoint), amount |-> a.coins] :
                  a \in allocations}]

----------------------------------------------------------------------------
(* _validate *)

\* mutation: the body of _accept pasted into _validate, with no reveals
_validate_Accepts ==
    /\ last.op = "none"
    /\ UNCHANGED <<disk, revalidates>>
    /\ \E rt \in BOOLEAN :
        LET r1 == [Blank EXCEPT !.op = "validate", !.read = {"runtime"}] IN
        IF ~rt THEN last' = Failed(r1, "Runtime") /\ UNCHANGED <<assets, stash>>
        ELSE \E filename \in Filenames :
        LET r2 == [r1 EXCEPT !.file = filename, !.read = @ \cup {"consignment_file"}]
            file == Consignment_read_file(filename) IN
        IF ~file.ok THEN last' = Failed(r2, "Io") /\ UNCHANGED <<assets, stash>>
        ELSE \E fault \in BOOLEAN :
        LET d == runtime_accept(file.consignment, {}, fault) IN
        /\ last' = [r2 EXCEPT !.calls = 1, !.err = d.err,
                              !.status = IF d.ok THEN "ok" ELSE "Integration"]
        /\ assets' = d.assets
        /\ stash' = d.stash

_validate ==
    /\ last.op = "none"
    /\ UNCHANGED runtimeState
    /\ \E rt \in BOOLEAN :
        LET r1 == [Blank EXCEPT !.op = "validate", !.read = {"runtime"}] IN
        IF ~rt THEN last' = Failed(r1, "Runtime")
        ELSE \E filename \in Filenames :
        LET r2 == [r1 EXCEPT !.file = filename, !.read = @ \cup {"consignment_file"}]
            file == Consignment_read_file(filename) IN
        IF ~file.ok THEN last' = Failed(r2, "Io")
        ELSE \E fault \in BOOLEAN :
        LET d == runtime_validate(file.consignment, fault) IN
        last' = [r2 EXCEPT !.calls = 1, !.err = d.err,
                           !.status = IF d.ok THEN "ok" ELSE "Integration"]

----------------------------------------------------------------------------
(* _accept *)

\* mutation: the consignment is accepted first, and the reveal list is
\* parsed (and applied) only afterwards
_accept_BeforeParsing ==
    /\ last.op = "none"
    /\ UNCHANGED <<disk, revalidates>>
    /\ \E rt \in BOOLEAN :
        LET r1 == [Blank EXCEPT !.op = "accept", !.read = {"runtime"}] IN
        IF ~rt THEN last' = Failed(r1, "Runtime") /\ UNCHANGED <<assets, stash>>
        ELSE \E filename \in Filenames :
        LET r2 == [r1 EXCEPT !.file = filename, !.read = @ \cup {"consignment_file"}]
            file == Consignment_read_file(filename) IN
        IF ~file.ok THEN last' = Failed(r2, "Io") /\ UNCHANGED <<assets, stash>>
        ELSE \E rev \in RevealJsons, fault \in BOOLEAN :
        LET r3 == [r2 EXCEPT !.reveals = rev, !.read = @ \cup {"reveal_outpoints"}]
            d == runtime_accept(file.consignment, Range(rev.items), fault) IN
        /\ last' = [r3 EXCEPT !.calls = 1, !.err = d.err,
                        !.status = IF ~d.ok THEN "Integration"
                                   ELSE IF ~rev.json THEN "Json" ELSE "ok"]
        /\ assets' = d.assets
        /\ stash' = d.stash

_accept ==
    /\ last.op = "none"
    /\ UNCHANGED <<disk, revalidates>>
    /\ \E rt \in BOOLEAN :
        LET r1 == [Blank EXCEPT !.op = "accept", !.read = {"runtime"}] IN
        IF ~rt THEN last' = Failed(r1, "Runtime") /\ UNCHANGED <<assets, stash>>
        ELSE \E filename \in Filenames :
        LET r2 == [r1 EXCEPT !.file = filename, !.read = @ \cup {"consignment_file"}]
            file == Consignment_read_file(filename) IN
        IF ~file.ok THEN last' = Failed(r2, "Io") /\ UNCHANGED <<assets, stash>>
        ELSE \E rev \in RevealJsons :
        LET r3 == [r2 EXCEPT !.reveals = rev, !.read = @ \cup {"reveal_outpoints"}] IN
        IF ~rev.json THEN last' = Failed(r3, "Json") /\ UNCHANGED <<assets, stash>>
        ELSE \E fault \in BOOLEAN :
        LET d == runtime_accept(file.consignment, Range(rev.items), fault) IN
        /\ last' = [r3 EXCEPT !.calls = 1, !.err = d.err,
                              !.status = IF d.ok THEN "ok" ELSE "Integration"]
        /\ assets' = d.assets
        /\ stash' = d.stash

----------------------------------------------------------------------------
(* _invoice *)

\* Invoice::to_string: contract id, blinded seal and amount, in this order
InvoiceToString(invoice) == <<invoice.contract_id, invoice.outpoint, invoice.amount>>

\* mutation: the blinded hash is returned in place of the blinding factor
InvoiceJson_HashAsSecret(invoice, outpoint_reveal) ==
    [invoice |-> InvoiceToString(invoice), secret |-> invoice.outpoint.hash]

\* the JSON reply of _invoice
InvoiceJson(invoice, outpoint_reveal) ==
    [invoice |-> InvoiceToString(invoice), secret |-> outpoint_reveal.blinding]

InvoiceAmounts == {1, 2}

_invoice ==
    /\ last.op = "none"
    /\ UNCHANGED runtimeState
    /\ \E asset_id \in CidStrings :
        LET r1 == [Blank EXCEPT !.op = "invoice", !.asset_id = asset_id,
                                !.read = {"asset_id"}]
            contract_id == ContractId_from_str(asset_id) IN
        IF ~contract_id.ok THEN last' = Failed(r1, "Bech32")
        ELSE \E text \in OutpointStrings :
        LET r2 == [r1 EXCEPT !.outpoint = text, !.read = @ \cup {"outpoint"}]
            outpoint == OutPoint_from_str(text) IN
        IF ~outpoint.ok THEN last' = Failed(r2, "Outpoint")
        ELSE \E amount \in InvoiceAmounts, b \in Blindings :
        LET outpoint_reveal == OutpointReveal_from(outpoint.outpoint, b)
            invoice == [contract_id |-> contract_id.id,
                        outpoint |-> Blinded(commit_conceal(outpoint_reveal)),
                        amount |-> amount]
            json_response == InvoiceJson(invoice, outpoint_reveal) IN
        last' = [r2 EXCEPT !.amount = amount, !.read = @ \cup {"amount"},
                           !.status = "ok",
                           !.invoice = json_response.invoice,
                           !.secret = json_response.secret]

----------------------------------------------------------------------------
(* _issue *)

NetworkStrings == {"bitcoin", "no-such-chain"}

\* Chain::from_str
Chain_from_str(s) == s = "bitcoin"

AllocationsJsons == {"[]", "[2@o1]", "{"}

\* serde_json::from_str::<Vec<OutpointCoins>>
ParseOutpointCoins(s) ==
    CASE s = "[]"     -> [ok |-> TRUE,  list |-> {}]
      [] s = "[2@o1]" -> [ok |-> TRUE,  list |-> {[outpoint |-> "o1", coins |-> 2]}]
      [] OTHER        -> [ok |-> FALSE, list |-> {}]

OptionalOutpointJsons == {"null", "{"}

\* serde_json::from_str::<Option<OutPoint>>
ParseOptionalOutpoint(s) == s = "null"

_issue ==
    /\ last.op = "none"
    /\ UNCHANGED <<stash, disk, revalidates>>
    /\ \E rt \in BOOLEAN :
        LET r1 == [Blank EXCEPT !.op = "issue", !.read = {"runtime"}] IN
        IF ~rt THEN last' = Failed(r1, "Runtime") /\ UNCHANGED assets
        ELSE \E network \in NetworkStrings :
        IF ~Chain_from_str(network)
        THEN last' = Failed(r1, "ChainParse") /\ UNCHANGED assets
        ELSE \E alloc \in AllocationsJsons :
        LET allocations == ParseOutpointCoins(alloc) IN
        IF ~allocations.ok THEN last' = Failed(r1, "Json") /\ UNCHANGED assets
        ELSE \E infl \in AllocationsJsons :
        IF ~ParseOutpointCoins(infl).ok
        THEN last' = Failed(r1, "Json") /\ UNCHANGED assets
        ELSE \E renomination \in OptionalOutpointJsons :
        IF ~ParseOptionalOutpoint(renomination)
        THEN last' = Failed(r1, "Json") /\ UNCHANGED assets
        ELSE \E epoch \in OptionalOutpointJsons :
        IF ~ParseOptionalOutpoint(epoch)
        THEN last' = Failed(r1, "Json") /\ UNCHANGED assets
        ELSE \E fault \in BOOLEAN :
        LET d == runtime_issue(allocations.list, fault) IN
        /\ last' = [r1 EXCEPT !.calls = 1, !.err = d.err,
                              !.status = IF d.ok THEN "ok" ELSE "Integration"]
        /\ assets' = d.assets

----------------------------------------------------------------------------
(* _start_logger *)

Targets == {"android", "other"}

\* the log crate before any logger is installed
NoLogger == [installed |-> FALSE, max_level |-> "Off", rust_log |-> ""]

\* cfg(target_os = "android"): android_logger::init_once installs the logger
\* and sets the level if none is installed yet, and otherwise does nothing
start_logger_android(lg) ==
    {[outcome |-> "done",
      logger |-> IF lg.installed THEN lg
                 ELSE [lg EXCEPT !.installed = TRUE, !.max_level = "Debug"]]}

\* cfg(not(target_os = "android")): RUST_LOG is set, then env_logger::init
\* installs the logger, and panics if one is installed already; the panic
\* leaves an extern "C" function, which aborts the process or unwinds into
\* the caller; set_max_level runs only after init has returned
start_logger_other(lg) ==
    LET env == [lg EXCEPT !.rust_log = "trace"] IN
    IF lg.installed
    THEN {[outcome |-> "panic-abort", logger |-> env],
          [outcome |-> "panic-unwind", logger |-> env]}
    ELSE {[outcome |-> "done",
           logger |-> [env EXCEPT !.installed = TRUE, !.max_level = "Trace"]]}

\* the outcomes of one _start_logger call in this build
_start_logger ==
    IF target = "android" THEN start_logger_android(logger)
    ELSE start_logger_other(logger)

----------------------------------------------------------------------------
(* rgb_node_connect, rgb_node_run *)

EndpointStrings == {"tcp://127.0.0.1:1", "no-scheme"}

\* ZmqSocketAddr::from_str
ZmqSocketAddr_from_str(s) == s = "tcp://127.0.0.1:1"

\* the `contract_endpoints` argument: JSON text of a map from contract name
\* to endpoint text
ContractEndpointsJsons == {"{}", "{fungible:tcp}", "{fungible:no-scheme}", "["}

\* serde_json::from_str::<HashMap<ContractName, String>>
ParseContractEndpoints(s) ==
    CASE s = "{}" -> [ok |-> TRUE, urls |-> {}]
      [] s = "{fungible:tcp}" -> [ok |-> TRUE, urls |-> {"tcp://127.0.0.1:1"}]
      [] s = "{fungible:no-scheme}" -> [ok |-> TRUE, urls |-> {"no-scheme"}]
      [] OTHER -> [ok |-> FALSE, urls |-> {}]

DatadirStrings == {"/data", "/tmp/rgb"}

ElectrumStrings == {"electrum:50001", "localhost:60001"}

Verbosities == 0..MaxVerbosity

NoBoot ==
    [op |-> "none", logStep |-> "", status |-> "", read |-> {}, network |-> "",
     stash_rpc_endpoint |-> "", contract_endpoints |-> "", datadir |-> "",
     electrum |-> "", verbosity |-> 0, embedded |-> FALSE]

BootFailed(r, e) == [r EXCEPT !.status = e]

\* the reply of a call whose _start_logger panicked: nothing after it runs
Panicked(op, outcome) == [NoBoot EXCEPT !.op = op, !.logStep = outcome, !.status = "panic"]

\* _connect_rgb, entered once _start_logger has returned
_connect_rgb ==
    \E network \in NetworkStrings :
    LET r1 == [NoBoot EXCEPT !.op = "connect", !.logStep = "done",
                             !.network = network, !.read = {"network"}] IN
    IF ~Chain_from_str(network) THEN boot' = BootFailed(r1, "ChainParse")
    ELSE \E stash_rpc_endpoint \in EndpointStrings :
    LET r2 == [r1 EXCEPT !.stash_rpc_endpoint = stash_rpc_endpoint,
                         !.read = @ \cup {"stash_rpc_endpoint"}] IN
    IF ~ZmqSocketAddr_from_str(stash_rpc_endpoint)
    THEN boot' = BootFailed(r2, "ZmqSocketAddr")
    ELSE \E electrum \in ElectrumStrings, endpoints \in ContractEndpointsJsons :
    LET r3 == [r2 EXCEPT !.electrum = electrum, !.contract_endpoints = endpoints,
                         !.read = @ \cup {"electrum", "contract_endpoints"}]
        s_contract_endpoints == ParseContractEndpoints(endpoints) IN
    IF ~s_contract_endpoints.ok THEN boot' = BootFailed(r3, "Json")
    ELSE IF \E url \in s_contract_endpoints.urls : ~ZmqSocketAddr_from_str(url)
    THEN boot' = BootFailed(r3, "ZmqSocketAddr")
    ELSE \E datadir \in DatadirStrings, verbosity \in Verbosities, init \in BOOLEAN :
    boot' = [r3 EXCEPT !.datadir = datadir, !.verbosity = verbosity,
                       !.read = @ \cup {"datadir", "verbosity"},
                       !.status = IF init THEN "ok" ELSE "Runtime"]

\* _run_rgb_embedded, entered once _start_logger has returned
_run_rgb_embedded ==
    \E network \in NetworkStrings :
    LET r1 == [NoBoot EXCEPT !.op = "run", !.logStep = "done", !.embedded = TRUE,
                             !.network = network, !.read = {"network"}] IN
    IF ~Chain_from_str(network) THEN boot' = BootFailed(r1, "ChainParse")
    ELSE \E datadir \in DatadirStrings, electrum \in ElectrumStrings,
            verbosity \in Verbosities, init \in BOOLEAN :
    boot' = [r1 EXCEPT !.datadir = datadir, !.electrum = electrum,
                       !.verbosity = verbosity,
                       !.read = @ \cup {"datadir", "electrum", "verbosity"},
                       !.status = IF init THEN "ok" ELSE "Runtime"]

rgb_node_connect ==
    /\ ~crashed
    /\ boot.op = "none"
    /\ UNCHANGED <<runtimeState, last, target>>
    /\ \E started \in _start_logger :
        /\ logger' = started.logger
        /\ crashed' = (started.outcome = "panic-abort")
        /\ IF started.outcome = "done" THEN _connect_rgb
           ELSE boot' = Panicked("connect", started.outcome)

rgb_node_run ==
    /\ ~crashed
    /\ boot.op = "none"
    /\ UNCHANGED <<runtimeState, last, target>>
    /\ \E started \in _start_logger :
        /\ logger' = started.logger
        /\ crashed' = (started.outcome = "panic-abort")
        /\ IF started.outcome = "done" THEN _run_rgb_embedded
           ELSE boot' = Panicked("run", started.outcome)

\* the caller takes the CResult; an aborted process takes nothing
BootReturn ==
    /\ ~crashed
    /\ boot.op # "none"
    /\ boot' = NoBoot
    /\ UNCHANGED <<runtimeState, last, target, logger, crashed>>

----------------------------------------------------------------------------
\* the caller takes the reply; the next call starts from no reply
Return ==
    /\ last.op # "none"
    /\ last' = Blank
    /\ UNCHANGED runtimeState
    /\ UNCHANGED processState

\* the process in which a runtime has been obtained by one rgb_node_run
\* call, on a build other than android
Running ==
    /\ target = "other"
    /\ logger = [installed |-> TRUE, max_level |-> "Trace", rust_log |-> "trace"]
    /\ crashed = FALSE
    /\ boot = NoBoot

----------------------------------------------------------------------------
(* The transfer operation on its own, over every payment and change list *)

NoConsignment == [valid |-> TRUE, allocs |-> {}]

InitTransfer ==
    /\ assets = {}
    /\ stash = {}
    /\ disk = NoConsignment
    /\ revalidates = TRUE
    /\ last = Blank
    /\ Running

Transfer ==
    /\ _transfer(JsonLists(PaymentTexts, MaxLen), JsonLists(ChangeTexts, MaxLen),
                 TransferOutcomes(WitnessEncodings))
    /\ UNCHANGED processState

NextTransfer == Transfer \/ Return

SpecTransfer == InitTransfer /\ [][NextTransfer]_vars

----------------------------------------------------------------------------
(* The operations together, on the consignment the file holds *)

Init ==
    /\ assets = {}
    /\ stash = {}
    /\ disk \in Consignments
    /\ revalidates \in BOOLEAN
    /\ last = Blank
    /\ Running

Issue == _issue /\ UNCHANGED processState

Invoice == _invoice /\ UNCHANGED processState

TransferOne ==
    /\ _transfer(JsonLists({<<"h1", At, "1">>}, 1), JsonLists({"1@s1"}, 1),
                 TransferOutcomes({<<65>>}))
    /\ UNCHANGED processState

Validate == _validate /\ UNCHANGED processState

Accept == _accept /\ UNCHANGED processState

Next == Issue \/ Invoice \/ TransferOne \/ Validate \/ Accept \/ Return

Spec == Init /\ [][Next]_vars

----------------------------------------------------------------------------
(* Starting the node, any number of times in one process *)

InitLogger ==
    /\ assets = {}
    /\ stash = {}
    /\ disk = NoConsignment
    /\ revalidates = TRUE
    /\ last = Blank
    /\ target \in Targets
    /\ logger = NoLogger
    /\ crashed = FALSE
    /\ boot = NoBoot

NextLogger == rgb_node_connect \/ rgb_node_run \/ BootReturn

SpecLogger == InitLogger /\ [][NextLogger]_vars

----------------------------------------------------------------------------
(* What the claims speak of *)

\* a text of the form <a>@<b> with <a> one outpoint hash and <b> decimal digits
HashThenAmount(text) ==
    /\ Len(text) >= 3
    /\ text[1] \in HashLexemes
    /\ text[2] = At
    /\ \A i \in 3..Len(text) : text[i] \in DigitLexemes

\* a text of the form <a>@<b> with <a> decimal digits and <b> one outpoint hash
AmountThenHash(text) ==
    /\ Len(text) >= 3
    /\ text[Len(text)] \in HashLexemes
    /\ text[Len(text) - 1] = At
    /\ \A i \in 1..(Len(text) - 2) : text[i] \in DigitLexemes

\* the seal endpoint a payment text names, on whichever side of the '@'
SealOf(text) == IF HashThenAmount(text) THEN text[1] ELSE text[Len(text)]

\* the amount a payment text of the form <amount>@<seal> names
AmountOf(text) == DecimalValue(SubSeq(text, 1, Len(text) - 2), 0)

PaymentRead == last.op = "transfer" /\ "payment" \in last.read /\ last.payment.json

ChangeRead == last.op = "transfer" /\ "change" \in last.read /\ last.change.json

DuplicatePaymentSeal ==
    /\ PaymentRead
    /\ \E i, j \in DOMAIN last.payment.items :
        LET a == last.payment.items[i]
            b == last.payment.items[j] IN
        /\ i # j
        /\ HashThenAmount(a) \/ AmountThenHash(a)
        /\ HashThenAmount(b) \/ AmountThenHash(b)
        /\ SealOf(a) = SealOf(b)

WellFormedChangeTexts == {"1@s1", "2@s1", "1@s2"}

ChangeSealOf(s) == IF s = "1@s2" THEN "s2" ELSE "s1"

DuplicateChangeSeal ==
    /\ ChangeRead
    /\ \E i, j \in DOMAIN last.change.items :
        LET a == last.change.items[i]
            b == last.change.items[j] IN
        /\ i # j
        /\ a \in WellFormedChangeTexts
        /\ b \in WellFormedChangeTexts
        /\ ChangeSealOf(a) = ChangeSealOf(b)

NothingReturned == ~last.hasOut /\ last.out = NoPackage

\* C1: a transfer whose payment list names one seal endpoint twice, or whose
\* change list names one seal definition twice, fails: the delegate is not
\* invoked and no package is returned.
C1_DuplicateSealFails ==
    (DuplicatePaymentSeal \/ DuplicateChangeSeal)
        => (last.status # "ok" /\ last.calls = 0 /\ NothingReturned)

\* C2: an invalid consignment is never accepted: it never enters the
\* runtime's accepted set, and no accept call on it succeeds, whatever calls
\* came before and whatever reveal list is supplied.
C2_InvalidNeverAccepted ==
    ~disk.valid =>
        /\ disk \notin stash
        /\ ~(last.op = "accept" /\ last.status = "ok")

\* C3: an accept call that returns an error leaves the allocation ledger
\* (and the accepted set) exactly as it was before the call.
C3_FailedAcceptChangesNothing ==
    [][(last.op = "none" /\ last'.op = "accept" /\ last'.status # "ok")
          => (assets' = assets /\ stash' = stash)]_vars

C3_Witness ==
    /\ last.op = "accept"
    /\ last.status = "Integration"
    /\ last.calls = 1
    /\ assets # {}

\* C4: a validate call, whatever its outcome, leaves the ledger and every
\* other piece of runtime state unchanged, and reads no reveal list.
C4_ValidateChangesNothing ==
    [][(last.op = "none" /\ last'.op = "validate")
          => (runtimeState' = runtimeState
              /\ "reveal_outpoints" \notin last'.read)]_vars

C4_Witness ==
    /\ last.op = "validate"
    /\ last.status = "ok"
    /\ last.calls = 1
    /\ assets # {}

\* C5: when the transfer delegate reports a failure, the transfer returns
\* that failure, returns no consignment and no witness, and has invoked the
\* delegate exactly once.
C5_DelegateFailureSurfaced ==
    (last.op = "transfer" /\ last.dout.err \in DelegateErrors)
        => /\ last.status = "Integration"
           /\ last.err = last.dout.err
           /\ NothingReturned
           /\ last.calls = 1

C5_Witness ==
    /\ last.op = "transfer"
    /\ last.dout.err = "conservation-mismatch"
    /\ last.status = "Integration"
    /\ Cardinality(last.dargs.payment) = 2

WellFormedCids == {"rgb1c1"}

WellFormedInputsJsons == {"[]", "[o1]", "[o1,o1]"}

MalformedTransferArgument ==
    /\ last.op = "transfer"
    /\ \/ "contract_id" \in last.read /\ last.contract_id \notin WellFormedCids
       \/ "inputs" \in last.read /\ last.inputs \notin WellFormedInputsJsons
       \/ "payment" \in last.read /\ ~last.payment.json
       \/ "payment" \in last.read
            /\ \E i \in DOMAIN last.payment.items : ~HashThenAmount(last.payment.items[i])
       \/ "change" \in last.read /\ ~last.change.json
       \/ "change" \in last.read
            /\ \E i \in DOMAIN last.change.items :
                    last.change.items[i] \notin WellFormedChangeTexts
       \/ "witness" \in last.read /\ last.witness # "psbt"

\* C6: a transfer with a malformed contract id, inputs JSON, payment entry,
\* change entry or witness encoding returns an error and no package, and the
\* delegate is not invoked; no transfer invokes the delegate more than once.
C6_MalformedInputStopsBeforeDelegate ==
    /\ MalformedTransferArgument
         => (last.status # "ok" /\ NothingReturned /\ last.calls = 0)
    /\ last.calls <= 1

C6_Witness ==
    /\ last.op = "transfer"
    /\ last.witness = "truncated"
    /\ last.status = "ConsensusEncode"
    /\ last.calls = 0
    /\ last.payment.items # <<>>
    /\ last.change.items # <<>>

\* C7 as stated: the secret an invoice returns commits, with the invoice's
\* outpoint, to the blinded seal the invoice carries; and an accept call
\* given a reveal (o, b) for a consignment containing commit(o, b) always
\* accepts that allocation.
InvoiceSecretOpensSeal ==
    (last.op = "invoice" /\ last.status = "ok")
        => last.invoice[2] =
              Blinded(commit_conceal([outpoint |-> OutPoint_from_str(last.outpoint).outpoint,
                                      blinding |-> last.secret]))

RevealedAllocationsAccepted ==
    \A i \in DOMAIN last.reveals.items : \A a \in disk.allocs :
        LET r == last.reveals.items[i] IN
        a.hash = commit_conceal(r)
            => [contract |-> "c1", seal |-> Revealed(r.outpoint), amount |-> a.amount]
                    \in assets

\* an accept call whose reveal list was read and holds a reveal (o, b) with
\* commit(o, b) among the consignment's seals
SuppliesMatchingReveal ==
    /\ last.op = "accept"
    /\ "reveal_outpoints" \in last.read
    /\ last.reveals.json
    /\ \E i \in DOMAIN last.reveals.items : \E a \in disk.allocs :
            a.hash = commit_conceal(last.reveals.items[i])

C8_AmountBeforeSeal ==
    (/\ PaymentRead
     /\ last.payment.items # <<>>
     /\ \A i \in DOMAIN last.payment.items : AmountThenHash(last.payment.items[i]))
        => /\ last.status \notin {"Input", "Hex", "ParseInt"}
           /\ last.calls = 1 =>
                \A i \in DOMAIN last.payment.items :
                    \E e \in last.dargs.payment :
                        /\ e.key = SealOf(last.payment.items[i])
                        /\ e.val \in {AmountOf(last.payment.items[j]) :
                                        j \in DOMAIN last.payment.items}

\* C9: once the transfer delegate has succeeded, the transfer returns the
\* package of consignment and re-encoded witness, whatever bytes the
\* witness's encoding holds; it returns no error.
C9_SuccessAlwaysReturnsPackage ==
    (last.op = "transfer" /\ last.dout.ok)
        => /\ last.status = "ok"
           /\ last.hasOut
           /\ last.out = [consignment |-> ToBech32String(last.dout.consignment),
                          witness |-> last.dout.witness]

\* C10: an invoice call changes no runtime state, so the other calls see
\* the ledger they would see without it, and it fails only on a malformed
\* contract id or a malformed outpoint.
C10_InvoiceIsStateless ==
    [][(last.op = "none" /\ last'.op = "invoice")
          => /\ runtimeState' = runtimeState
             /\ last'.calls = 0
             /\ last'.status # "ok"
                  => \/ last'.asset_id \notin WellFormedCids
                     \/ ("outpoint" \in last'.read /\ last'.outpoint \notin Outpoints)]_vars

C10_Witness ==
    /\ last.op = "invoice"
    /\ last.status = "ok"
    /\ assets # {}
    /\ stash # {}

\* C11: every rgb_node_connect and rgb_node_run call in one process, a
\* second or later one included, completes its logger initialization step
\* without failing, however many times the step already ran.
C11_LoggerInitIdempotent ==
    /\ boot.op \in {"connect", "run"} => boot.logStep = "done"
    /\ ~crashed

====
